---- MODULE Spec2Model ----
(***************************************************************************)
(* Model of the JSON-canvas syndication pipeline: the orchestrator         *)
(* (process_canvas / watch_and_process), the binary's own event loop       *)
(* (main), the published-item tracker and the jj repository sink.          *)
(***************************************************************************)
EXTENDS Integers, Sequences, FiniteSets, TLC

(***************************************************************************)
(* Bounds of the model.                                                    *)
(***************************************************************************)
NumNodes == 2      \* node identifiers n1 .. n<NumNodes>
MaxEvents == 1     \* events carried by one watcher message

(***************************************************************************)
(* Program constants.                                                      *)
(***************************************************************************)
SlugWords == 8     \* generate_slug: .take(8)
DRY_RUN == TRUE    \* main.rs: const DRY_RUN

(***************************************************************************)
(* Text is a sequence of one-character strings.                            *)
(***************************************************************************)
DigitChar == <<"1", "2", "3", "4", "5", "6", "7", "8", "9">>
NodeIdOf(i) == <<"n", DigitChar[i]>>
NodeIds == {NodeIdOf(i) : i \in 1..NumNodes}

Whitespace == {" ", "\n"}
\* "I_dot" stands for the one character U+0130 (capital I with dot above)
\* and "dot" for U+0307 (combining dot above), which is no alphanumeric;
\* the lowercase form of a character is a string, for U+0130 of two
\* characters
UpperToLower ==
    [c \in {"A", "B", "I_dot"} |->
        IF c = "A" THEN <<"a">>
        ELSE IF c = "B" THEN <<"b">>
        ELSE <<"i", "dot">>]
Alphanumeric ==
    {"a", "b", "i", "n", "A", "B", "I_dot"} \cup {DigitChar[i] : i \in 1..9}

TextA == <<"A", "!", " ", "b">>
TextB == <<"B", "-", "a">>
EmptyText == <<>>

\* str::split_whitespace
RECURSIVE SplitFrom(_, _, _, _)
SplitFrom(text, i, word, acc) ==
    IF i > Len(text)
    THEN IF word = <<>> THEN acc ELSE Append(acc, word)
    ELSE IF text[i] \in Whitespace
         THEN SplitFrom(text, i + 1, <<>>,
                        IF word = <<>> THEN acc ELSE Append(acc, word))
         ELSE SplitFrom(text, i + 1, Append(word, text[i]), acc)
split_whitespace(text) == SplitFrom(text, 1, <<>>, <<>>)

\* Iterator::take
Take(s, n) == SubSeq(s, 1, IF Len(s) < n THEN Len(s) ELSE n)

\* the lowercase form of one character on the modelled alphabet
ToLower(c) == IF c \in DOMAIN UpperToLower THEN UpperToLower[c] ELSE <<c>>

\* [String]::join
RECURSIVE Join(_, _)
Join(words, sep) ==
    IF words = <<>> THEN <<>>
    ELSE IF Len(words) = 1 THEN words[1]
    ELSE words[1] \o sep \o Join(Tail(words), sep)

\* variant: every character of the word is kept
CleanWord_KeepAll(word) ==
    Join([i \in 1..Len(word) |-> ToLower(word[i])], <<>>)

\* the closure of generate_slug: keep alphanumerics and '-', then
\* String::to_lowercase
CleanWord(word) ==
    LET kept == SelectSeq(word, LAMBDA c : c \in Alphanumeric \/ c = "-")
    IN  Join([i \in 1..Len(kept) |-> ToLower(kept[i])], <<>>)

generate_slug(text) ==
    LET words == Take(split_whitespace(text), SlugWords)
        cleaned == [i \in 1..Len(words) |-> CleanWord(words[i])]
    IN  Join(SelectSeq(cleaned, LAMBDA w : w # <<>>), <<"-">>)

\* the slugs of the texts the canvas uses, computed once
Texts == {TextA, TextB, EmptyText}
SlugOf == [t \in Texts |-> generate_slug(t)]

generate_filename(slug, node_id) ==
    slug \o <<"-">> \o node_id \o <<".", "m", "d">>


(***************************************************************************)
(* The canvas file.  A well-formed file parses to a node mapping; every    *)
(* node has a kind, a text and an optional colour ("none" when absent).    *)
(***************************************************************************)
RedA == [kind |-> "text", text |-> TextA, color |-> "red"]
RedB == [kind |-> "text", text |-> TextB, color |-> "red"]
BlueA == [kind |-> "text", text |-> TextA, color |-> "blue"]
NodeChoices == {RedA, RedB, BlueA}

NoNodes == [n \in {} |-> RedA]
Canvases == [NodeIds -> NodeChoices]
Contents == {[wellformed |-> TRUE, nodes |-> g] : g \in Canvases}
            \cup {[wellformed |-> FALSE, nodes |-> NoNodes]}

\* variant: a parse error is swallowed
from_str_Lenient(content) == [ok |-> TRUE, canvas |-> content.nodes]

\* JsonCanvas::from_str
from_str(content) == [ok |-> content.wellformed, canvas |-> content.nodes]

\* variant: the color is not looked at
default_node_filter_AnyColor(node) ==
    IF node.kind = "text"
    THEN IF node.text = EmptyText THEN FALSE ELSE TRUE
    ELSE FALSE

\* lib.rs default_node_filter
default_node_filter(node) ==
    IF node.kind = "text"
    THEN IF node.text = EmptyText
         THEN FALSE
         ELSE IF node.color # "none"
              THEN IF node.color # "red" THEN FALSE ELSE TRUE
              ELSE FALSE
    ELSE FALSE

\* to_syndication_format(canvas, Some(default_process_node)):
\* the mapping node id -> item of the nodes the filter accepts
to_syndication_format(nodes) ==
    [id \in {n \in DOMAIN nodes : default_node_filter(nodes[n])} |->
        [id |-> id, text |-> nodes[id].text]]

(***************************************************************************)
(* SyndicationTracker: the in-memory set of published identifiers.  A      *)
(* failed flush to storage leaves the in-memory set updated.               *)
(***************************************************************************)
is_published(set, node_id) == node_id \in set

mark_published(set, ids, persistOk) ==
    [mem |-> set \cup ids, ok |-> persistOk]

(***************************************************************************)
(* JjRepositorySink.  A step is <<name, argument>>; the argument is the    *)
(* file name of a write and empty otherwise.                               *)
(***************************************************************************)
NoArg == <<>>

\* run_jj_command: nothing runs in a dry run, otherwise the command runs
\* and its exit status decides the result
run_jj_command(dry_run, fails) ==
    IF dry_run THEN [ok |-> TRUE, ran |-> FALSE]
    ELSE [ok |-> ~fails, ran |-> TRUE]

\* variant: dry_run is ignored
write_file_Always(dry_run, fails) == [ok |-> ~fails, ran |-> TRUE]

\* write_file: nothing is written in a dry run
write_file(dry_run, fails) ==
    IF dry_run THEN [ok |-> TRUE, ran |-> FALSE]
    ELSE [ok |-> ~fails, ran |-> TRUE]

Orders(S) ==
    {o \in [1..Cardinality(S) -> S] : \A i, j \in DOMAIN o : o[i] = o[j] => i = j}

\* variant: the files are written into the change that is current, and the
\* new change is created after them
PublishSteps_WriteBeforeNew(items, order) ==
    <<  <<"fetch", NoArg>> >>
    \o [i \in 1..Len(order) |->
          <<"write",
            generate_filename(SlugOf[items[order[i]].text], order[i])>>]
    \o << <<"new", NoArg>>, <<"bookmark", NoArg>>, <<"push", NoArg>> >>

\* variant: a file is named after its place in the iteration, not after
\* its node
PublishSteps_NameByPlace(items, order) ==
    <<  <<"fetch", NoArg>>, <<"new", NoArg>> >>
    \o [i \in 1..Len(order) |->
          <<"write",
            generate_filename(SlugOf[items[order[i]].text], NodeIdOf(i))>>]
    \o << <<"bookmark", NoArg>>, <<"push", NoArg>> >>

\* variant: the bookmark is moved before the files are written
PublishSteps_MoveBeforeWrite(items, order) ==
    <<  <<"fetch", NoArg>>, <<"new", NoArg>>, <<"bookmark", NoArg>> >>
    \o [i \in 1..Len(order) |->
          <<"write",
            generate_filename(SlugOf[items[order[i]].text], order[i])>>]
    \o << <<"push", NoArg>> >>

\* the steps of publish in program order; `order` is the iteration order
\* of the items map
PublishSteps(items, order) ==
    <<  <<"fetch", NoArg>>, <<"new", NoArg>> >>
    \o [i \in 1..Len(order) |->
          <<"write",
            generate_filename(SlugOf[items[order[i]].text], order[i])>>]
    \o << <<"bookmark", NoArg>>, <<"push", NoArg>> >>

RunStep(step, dry_run, fails) ==
    IF step[1] = "write" THEN write_file(dry_run, fails)
    ELSE run_jj_command(dry_run, fails)

\* the `?` chain of publish: run the steps in order, stop at the first error
RECURSIVE RunSteps(_, _, _, _, _, _)
RunSteps(steps, i, dry_run, failAt, attempted, done) ==
    IF i > Len(steps)
    THEN [ok |-> TRUE, attempted |-> attempted, done |-> done]
    ELSE LET r == RunStep(steps[i], dry_run, i = failAt)
             att == IF r.ran THEN Append(attempted, steps[i]) ELSE attempted
         IN  IF r.ok
             THEN RunSteps(steps, i + 1, dry_run, failAt, att,
                           IF r.ran THEN Append(done, steps[i]) ELSE done)
             ELSE [ok |-> FALSE, attempted |-> att, done |-> done]

\* JjRepositorySink::publish
JjPublish(items, dry_run, order, failAt) ==
    IF DOMAIN items = {}
    THEN [ok |-> TRUE, attempted |-> <<>>, done |-> <<>>]
    ELSE RunSteps(PublishSteps(items, order), 1, dry_run, failAt, <<>>, <<>>)

\* any other implementor of SyndicationSink::publish: the trait promises
\* only a Result
TraitPublish(items, dry_run, fails) ==
    [ok |-> ~fails, attempted |-> <<>>, done |-> <<>>]

publish(sinkKind, items, dry_run, order, failAt) ==
    IF sinkKind = "jj" THEN JjPublish(items, dry_run, order, failAt)
    ELSE TraitPublish(items, dry_run, failAt # 0)

StepNames(steps) == [i \in 1..Len(steps) |-> steps[i][1]]
WrittenFiles(steps) == {steps[i][2] : i \in {j \in 1..Len(steps) : steps[j][1] = "write"}}


(***************************************************************************)
(* State.                                                                  *)
(***************************************************************************)
VARIABLES
    entry,      \* which event loop runs: "watch_and_process" or "main"
    sinkKind,   \* "jj" (JjRepositorySink) or "other" (another implementor)
    dry_run,    \* the dry_run argument of watch_and_process
    content,    \* content of the canvas file
    published,  \* tracker: in-memory set of published identifiers
    started,    \* watch_and_process: the startup pass has run
    cur,        \* events of the received message not yet handled
    lastCycle,  \* what the last processing pass did
    exit,       \* what watch_and_process returned: "none" while it runs
    rx,         \* watcher channel: the messages in it, and its state
                \* ("none" before it is created, then "open" or "closed")
    input,      \* argument of the function under study
    output      \* its result

vars == <<entry, sinkKind, dry_run, content, published, started, cur,
          lastCycle, exit, rx, input, output>>

\* the variables the pipeline leaves alone
extra == <<exit, rx, input, output>>

\* no watcher channel has been created
NoChannel == [msgs |-> <<>>, state |-> "none"]

ExtraIdle ==
    /\ exit = "none"
    /\ rx = NoChannel
    /\ input = <<>>
    /\ output = <<>>

EventKinds == {"Any", "AnyContinuous"}
EventLists == UNION {[1..n -> EventKinds] : n \in 1..MaxEvents}
Messages == {[ok |-> TRUE, events |-> e] : e \in EventLists}
            \cup {[ok |-> FALSE, events |-> <<>>]}

\* the step a publish of n items may fail at (0: none)
FailChoices(sink, n) ==
    IF n = 0 THEN {0}
    ELSE IF sink = "jj" THEN 0..(n + 4)
    ELSE {0, 1}

\* main.rs publishes n times in one pass; at most one of the calls meets a
\* failing step
FailPatterns(n) ==
    {f \in [1..n -> FailChoices("jj", 1)] :
        Cardinality({i \in 1..n : f[i] # 0}) <= 1}

NoCycle ==
    [by |-> "none", read |-> "none",
     before |-> {}, selected |-> {}, batch |-> {},
     calls |-> <<>>, results |-> <<>>, marks |-> <<>>, markResults |-> <<>>,
     attempted |-> <<>>, done |-> <<>>]

(***************************************************************************)
(* orchestrator.rs process_canvas                                          *)
(***************************************************************************)
\* variants of the filter: nothing filtered out; the test inverted
NewItems_NoFilter(all_items, set) == all_items

NewItems_Inverted(all_items, set) ==
    [id \in {n \in DOMAIN all_items : is_published(set, n)} |-> all_items[id]]

\* the filter of already-published items
NewItems(all_items, set) ==
    [id \in {n \in DOMAIN all_items : ~is_published(set, n)} |-> all_items[id]]

\* variant: the empty batch is not noticed
is_empty_Never(items) == FALSE

\* `new_items.is_empty()`
is_empty(items) == DOMAIN items = {}

\* variant: only one key is collected
published_ids_First(new_items) == {CHOOSE x \in DOMAIN new_items : TRUE}

\* `new_items.keys().cloned().collect()`
published_ids_of(new_items) == DOMAIN new_items

\* variants: marking whatever the result; marking in a dry run too
MarkAfterPublish_Never(ok, dry) == FALSE

MarkAfterPublish_AnyResult(ok, dry) == ~dry

MarkAfterPublish_InDryRun(ok, dry) == ok

\* the arms of `match sink.publish(..)`: mark only after Ok and outside a
\* dry run
MarkAfterPublish(ok, dry) == ok /\ ~dry

\* One pass: the record of what it did, and the tracker after it.
process_canvas(file, readOk, set, sink, dry, order, failAt, persistOk) ==
    LET idle == [cycle |-> [NoCycle EXCEPT !.by = "process_canvas",
                                           !.before = set],
                 mem |-> set]
    IN
    IF ~readOk
    THEN [idle EXCEPT !.cycle.read = "read_err"]
    ELSE LET parsed == from_str(file) IN
    IF ~parsed.ok
    THEN [idle EXCEPT !.cycle.read = "parse_err"]
    ELSE LET all_items == to_syndication_format(parsed.canvas)
             new_items == NewItems(all_items, set)
             found == [idle EXCEPT !.cycle.read = "ok",
                                   !.cycle.selected = DOMAIN all_items,
                                   !.cycle.batch = DOMAIN new_items]
         IN
    IF is_empty(new_items)
    THEN found
    ELSE LET published_ids == published_ids_of(new_items)
             r == publish(sink, new_items, dry, order, failAt)
             sent == [found EXCEPT !.cycle.calls = <<DOMAIN new_items>>,
                                   !.cycle.results = <<r.ok>>,
                                   !.cycle.attempted = r.attempted,
                                   !.cycle.done = r.done]
         IN
    IF MarkAfterPublish(r.ok, dry)
    THEN LET m == mark_published(set, published_ids, persistOk)
         IN  [sent EXCEPT !.cycle.marks = <<published_ids>>,
                          !.cycle.markResults = <<m.ok>>,
                          !.mem = m.mem]
    ELSE sent

\* the identifiers a pass on the current file would put in its batch
BatchNow(readOk) ==
    IF readOk /\ from_str(content).ok
    THEN DOMAIN NewItems(to_syndication_format(from_str(content).canvas), published)
    ELSE {}

ProcessCanvas ==
    \E readOk \in BOOLEAN :
    \E order \in Orders(BatchNow(readOk)) :
    \E failAt \in FailChoices(sinkKind, Len(order)) :
    \E persistOk \in BOOLEAN :
    \E out \in {process_canvas(content, readOk, published, sinkKind,
                               dry_run, order, failAt, persistOk)} :
        /\ lastCycle' = out.cycle
        /\ published' = out.mem

(***************************************************************************)
(* main.rs: the handler of one file-change event.                          *)
(***************************************************************************)
\* `for item in &syndication_items { jj_sink.publish(item, DRY_RUN) }`
RECURSIVE PublishEach(_, _, _, _, _)
PublishEach(items, order, i, failAts, acc) ==
    IF i > Len(order)
    THEN acc
    ELSE LET one == [id \in {order[i]} |-> items[id]]
             r == JjPublish(one, DRY_RUN, <<order[i]>>, failAts[i])
         IN  PublishEach(items, order, i + 1, failAts,
                 [acc EXCEPT !.calls = Append(@, DOMAIN one),
                             !.results = Append(@, r.ok),
                             !.attempted = @ \o r.attempted,
                             !.done = @ \o r.done])

main_cycle(file, readOk, order, failAts) ==
    LET idle == [NoCycle EXCEPT !.by = "main"] IN
    IF ~readOk
    THEN [idle EXCEPT !.read = "read_err"]
    ELSE LET parsed == from_str(file) IN
    IF ~parsed.ok
    THEN [idle EXCEPT !.read = "parse_err"]
    ELSE LET syndication_items == to_syndication_format(parsed.canvas)
             ids == DOMAIN syndication_items
         IN  PublishEach(syndication_items, order, 1, failAts,
                 [idle EXCEPT !.read = "ok", !.selected = ids, !.batch = ids])

SelectedNow(readOk) ==
    IF readOk /\ from_str(content).ok
    THEN DOMAIN to_syndication_format(from_str(content).canvas)
    ELSE {}

MainProcess ==
    \E readOk \in BOOLEAN :
    \E order \in Orders(SelectedNow(readOk)) :
    \E failAts \in FailPatterns(Len(order)) :
        /\ lastCycle' = main_cycle(content, readOk, order, failAts)
        /\ UNCHANGED published

(***************************************************************************)
(* Initial states and actions.                                             *)
(***************************************************************************)
Init ==
    /\ entry \in {"watch_and_process", "main"}
    /\ sinkKind \in IF entry = "main" THEN {"jj"} ELSE {"jj", "other"}
    /\ dry_run \in IF entry = "main" THEN {DRY_RUN} ELSE BOOLEAN
    /\ content \in Contents
    /\ published \in IF entry = "main" THEN {{}} ELSE SUBSET NodeIds
    /\ started = (entry = "main")
    /\ cur = <<>>
    /\ lastCycle = NoCycle
    /\ ExtraIdle

\* watch_and_process: the pass at startup
Startup ==
    /\ entry = "watch_and_process"
    /\ ~started
    /\ started' = TRUE
    /\ ProcessCanvas
    /\ UNCHANGED <<entry, sinkKind, dry_run, content, cur>>
    /\ UNCHANGED extra

\* `for res in rx`: take the next message of the watcher channel; a watch
\* error is only logged
Recv ==
    /\ started
    /\ cur = <<>>
    /\ \E m \in Messages : cur' = IF m.ok THEN m.events ELSE <<>>
    /\ UNCHANGED <<entry, sinkKind, dry_run, content, published, started,
                   lastCycle>>
    /\ UNCHANGED extra

WatchEvent_AbortOnMarkError ==
    /\ entry = "watch_and_process"
    /\ cur # <<>>
    /\ cur' = Tail(cur)
    /\ IF Head(cur) = "Any"
       THEN /\ ProcessCanvas
            /\ exit' = IF lastCycle'.markResults = <<FALSE>>
                       THEN "err" ELSE exit
       ELSE UNCHANGED <<published, lastCycle, exit>>
    /\ UNCHANGED <<entry, sinkKind, dry_run, content, started>>
    /\ UNCHANGED <<rx, input, output>>

\* watch_and_process: `for event in events`
WatchEvent ==
    /\ entry = "watch_and_process"
    /\ cur # <<>>
    /\ cur' = Tail(cur)
    /\ IF Head(cur) = "Any"
       THEN ProcessCanvas
       ELSE UNCHANGED <<published, lastCycle>>
    /\ UNCHANGED <<entry, sinkKind, dry_run, content, started>>
    /\ UNCHANGED extra

\* main: `for event in events`
MainEvent ==
    /\ entry = "main"
    /\ cur # <<>>
    /\ cur' = Tail(cur)
    /\ IF Head(cur) = "Any"
       THEN MainProcess
       ELSE UNCHANGED <<published, lastCycle>>
    /\ UNCHANGED <<entry, sinkKind, dry_run, content, started>>
    /\ UNCHANGED extra

\* the user saves the canvas file: one node changes, or the file becomes
\* malformed or well-formed again
EditCanvas ==
    /\ \/ /\ content.wellformed
          /\ \E n \in NodeIds, v \in NodeChoices :
                /\ v # content.nodes[n]
                /\ content' = [content EXCEPT !.nodes[n] = v]
       \/ /\ content.wellformed
          /\ content' = [wellformed |-> FALSE, nodes |-> NoNodes]
       \/ /\ ~content.wellformed
          /\ \E g \in Canvases : content' = [wellformed |-> TRUE, nodes |-> g]
    /\ UNCHANGED <<entry, sinkKind, dry_run, published, started, cur,
                   lastCycle>>
    /\ UNCHANGED extra

Next ==
    \/ Startup
    \/ Recv
    \/ WatchEvent
    \/ MainEvent
    \/ EditCanvas

Spec == Init /\ [][Next]_vars

TypeOK ==
    /\ published \subseteq NodeIds
    /\ lastCycle.batch \subseteq NodeIds


(***************************************************************************)
(* watch_and_process with its watcher channel and its return value.        *)
(***************************************************************************)
MaxQueue == 1

\* the loop is studied with a sink that is any implementor of the trait
InitLoop ==
    /\ entry = "watch_and_process"
    /\ sinkKind = "other"
    /\ dry_run \in BOOLEAN
    /\ content \in Contents
    /\ published = {}
    /\ started = FALSE
    /\ cur = <<>>
    /\ lastCycle = NoCycle
    /\ ExtraIdle

new_debouncer_BeforeStartup ==
    /\ exit = "none"
    /\ rx.state = "none"
    /\ \E ok \in BOOLEAN :
          IF ok
          THEN rx' = [msgs |-> <<>>, state |-> "open"] /\ UNCHANGED exit
          ELSE exit' = "err" /\ UNCHANGED rx
    /\ UNCHANGED <<entry, sinkKind, dry_run, content, published, started,
                   cur, lastCycle, input, output>>

\* after the startup pass: create the channel and the debouncer and watch
\* the canvas file; a failure of either is returned with `?`
new_debouncer ==
    /\ started
    /\ exit = "none"
    /\ rx.state = "none"
    /\ \E ok \in BOOLEAN :
          IF ok
          THEN rx' = [msgs |-> <<>>, state |-> "open"] /\ UNCHANGED exit
          ELSE exit' = "err" /\ UNCHANGED rx
    /\ UNCHANGED <<entry, sinkKind, dry_run, content, published, started,
                   cur, lastCycle, input, output>>

\* the debouncer thread sends the events of a quiet period, or a watch error
Notify ==
    /\ rx.state = "open"
    /\ Len(rx.msgs) < MaxQueue
    /\ \E m \in Messages : rx' = [rx EXCEPT !.msgs = Append(@, m)]
    /\ UNCHANGED <<entry, sinkKind, dry_run, content, published, started,
                   cur, lastCycle, exit, input, output>>

\* the debouncer thread ends and drops the sender
DropSender ==
    /\ rx.state = "open"
    /\ rx' = [rx EXCEPT !.state = "closed"]
    /\ UNCHANGED <<entry, sinkKind, dry_run, content, published, started,
                   cur, lastCycle, exit, input, output>>

RecvLoop_Eager ==
    /\ exit = "none"
    /\ rx.state # "none"
    /\ IF rx.msgs # <<>>
       THEN /\ cur' = IF Head(rx.msgs).ok THEN Head(rx.msgs).events ELSE <<>>
            /\ rx' = [rx EXCEPT !.msgs = Tail(@)]
            /\ UNCHANGED exit
       ELSE /\ rx.state = "closed"
            /\ exit' = "ok"
            /\ UNCHANGED <<cur, rx>>
    /\ UNCHANGED <<entry, sinkKind, dry_run, content, published, started,
                   lastCycle, input, output>>

RecvLoop_Propagate ==
    /\ exit = "none"
    /\ rx.state # "none"
    /\ cur = <<>>
    /\ IF rx.msgs # <<>>
       THEN /\ cur' = IF Head(rx.msgs).ok THEN Head(rx.msgs).events ELSE <<>>
            /\ rx' = [rx EXCEPT !.msgs = Tail(@)]
            /\ exit' = IF Head(rx.msgs).ok THEN exit ELSE "err"
       ELSE /\ rx.state = "closed"
            /\ exit' = "ok"
            /\ UNCHANGED <<cur, rx>>
    /\ UNCHANGED <<entry, sinkKind, dry_run, content, published, started,
                   lastCycle, input, output>>

\* `for res in rx`: when the events of the last message are done, take the
\* next message (a watch error is only logged); the loop ends, and the
\* function returns Ok, when the channel is closed and empty
RecvLoop ==
    /\ exit = "none"
    /\ rx.state # "none"
    /\ cur = <<>>
    /\ IF rx.msgs # <<>>
       THEN /\ cur' = IF Head(rx.msgs).ok THEN Head(rx.msgs).events ELSE <<>>
            /\ rx' = [rx EXCEPT !.msgs = Tail(@)]
            /\ UNCHANGED exit
       ELSE /\ rx.state = "closed"
            /\ exit' = "ok"
            /\ UNCHANGED <<cur, rx>>
    /\ UNCHANGED <<entry, sinkKind, dry_run, content, published, started,
                   lastCycle, input, output>>

NextLoop ==
    \/ Startup
    \/ new_debouncer
    \/ Notify
    \/ DropSender
    \/ RecvLoop
    \/ WatchEvent

SpecLoop == InitLoop /\ [][NextLoop]_vars


(***************************************************************************)
(* watch_and_process outside a dry run on a graph that does not change,    *)
(* with triggers that keep arriving.                                       *)
(***************************************************************************)
InitLive ==
    /\ entry = "watch_and_process"
    /\ sinkKind \in {"jj", "other"}
    /\ dry_run = FALSE
    /\ content \in Contents
    /\ published \in SUBSET NodeIds
    /\ started = FALSE
    /\ cur = <<>>
    /\ lastCycle = NoCycle
    /\ ExtraIdle

NextLive ==
    \/ Startup
    \/ Recv
    \/ WatchEvent

\* the watcher delivers a message that begins with a change of the file
TriggerArrives ==
    /\ Recv
    /\ cur' # <<>>
    /\ Head(cur') = "Any"

\* the one thread of watch_and_process keeps running (the startup pass and
\* every event that is held are handled), and triggers keep arriving
SpecLive ==
    /\ InitLive
    /\ [][NextLive]_vars
    /\ WF_vars(Startup)
    /\ WF_vars(WatchEvent)
    /\ SF_vars(TriggerArrives)


(***************************************************************************)
(* The functions studied on their own: the pipeline stands still.          *)
(***************************************************************************)
PipelineIdle ==
    /\ entry = "none"
    /\ sinkKind = "none"
    /\ dry_run = FALSE
    /\ content = [wellformed |-> FALSE, nodes |-> NoNodes]
    /\ published = {}
    /\ started = FALSE
    /\ cur = <<>>
    /\ lastCycle = NoCycle
    /\ exit = "none"
    /\ rx = NoChannel

pipeline == <<entry, sinkKind, dry_run, content, published, started, cur,
              lastCycle, exit, rx>>

\* the function has not been applied yet
NoOutput == [status |-> "none"]

(***************************************************************************)
(* lib.rs: the adjacency maps of to_syndication_format.                    *)
(***************************************************************************)
MaxEdges == 2

EdgeIds == {<<"e", DigitChar[i]>> : i \in 1..MaxEdges}

\* an edge of the canvas: its id and the node ids it names
Edges == [id : EdgeIds, from : NodeIds, to : NodeIds]

\* `edges.iter()`: the edges of the map, each id once, in the order the map
\* happens to yield them
EdgeLists ==
    {l \in UNION {[1..n -> Edges] : n \in 0..MaxEdges} :
        \A i, j \in 1..Len(l) : l[i].id = l[j].id => i = j}

\* a canvas as to_syndication_format sees it: the ids of `nodes` and the
\* edges; an edge may name an id that is not among the nodes
Graphs == [nodes : SUBSET NodeIds, edges : EdgeLists]

EmptyMap == [n \in NodeIds |-> <<>>]

\* `map.get(key).map_or_else(|| insert(key, vec![pair]), |v| v.push(pair))`;
\* a key with no entry is the key of an empty list
Push(map, key, pair) == [map EXCEPT ![key] = Append(@, pair)]

\* the body of the fold for one edge: both blocks write out_adjacency_map
FoldEdge(maps, edge) ==
    [out |-> Push(Push(maps.out, edge.from, <<edge.to, edge.id>>),
                  edge.to, <<edge.from, edge.id>>),
     in  |-> maps.in]

RECURSIVE AdjacencyFold(_, _, _)
AdjacencyFold(edges, i, maps) ==
    IF i > Len(edges) THEN maps
    ELSE AdjacencyFold(edges, i + 1, FoldEdge(maps, edges[i]))

\* `nodes.get(adjacent_node_id).expect(..)` over one adjacency list: TRUE
\* when every neighbor is found
Resolves(nodes, list) == \A i \in 1..Len(list) : list[i][1] \in nodes

\* to_syndication_format up to the filter: the maps, then for every node
\* its resolved out and in edges; a neighbor that is no node panics
to_syndication_format_edges(graph) ==
    LET maps == AdjacencyFold(graph.edges, 1,
                              [out |-> EmptyMap, in |-> EmptyMap])
        ok == \A n \in graph.nodes :
                 Resolves(graph.nodes, maps.out[n])
                 /\ Resolves(graph.nodes, maps.in[n])
    IN  [status |-> IF ok THEN "ok" ELSE "panic",
         out |-> maps.out,
         in |-> maps.in]

InitGraph ==
    /\ PipelineIdle
    /\ input \in Graphs
    /\ output = NoOutput

BuildAdjacency ==
    /\ output.status = "none"
    /\ output' = to_syndication_format_edges(input)
    /\ UNCHANGED <<pipeline, input>>

NextGraph == BuildAdjacency

SpecGraph == InitGraph /\ [][NextGraph]_vars


(***************************************************************************)
(* lib.rs: default_node_filter on every shape of node.                     *)
(***************************************************************************)
NodeKinds == {"text", "file", "link", "group"}

\* no color, the preset red, another preset, and red written as a hex color
Colors == {"none", "red", "blue", "#ff0000"}

\* a node of the canvas; only a text node has text
Nodes ==
    {n \in [kind : NodeKinds, text : Texts, color : Colors] :
        n.kind # "text" => n.text = EmptyText}

\* the adjacency handed to the filter: at most one neighbor on each side
Neighbors == {<<>>} \cup {<<n>> : n \in NodeIds}

InitFilter ==
    /\ PipelineIdle
    /\ input \in [node : Nodes, out : Neighbors, in : Neighbors]
    /\ output = NoOutput

\* filter(node, out_edges, in_edges): the default filter names neither
\* adjacency argument
CallFilter ==
    /\ output.status = "none"
    /\ output' = [status |-> "once",
                  first |-> default_node_filter(input.node),
                  second |-> FALSE]
    /\ UNCHANGED <<pipeline, input>>

\* the same call again
CallFilterAgain ==
    /\ output.status = "once"
    /\ output' = [output EXCEPT !.status = "twice",
                                !.second = default_node_filter(input.node)]
    /\ UNCHANGED <<pipeline, input>>

NextFilter ==
    \/ CallFilter
    \/ CallFilterAgain

SpecFilter == InitFilter /\ [][NextFilter]_vars


(***************************************************************************)
(* jj_sink.rs: the files of a batch and their cross-references.            *)
(***************************************************************************)
TitleWords == 8

\* `Local::now().format("%Y-%m-%d")` on the day of the publish
Dates == {<<"2", "5", "-", "0", "1", "-", "0", "1">>,
          <<"2", "5", "-", "0", "1", "-", "0", "2">>}

\* the first words of a text joined by one space: a title or a link text
first_words(text) == Join(Take(split_whitespace(text), TitleWords), <<" ">>)

RECURSIVE escape_yaml_string(_)
escape_yaml_string(str) ==
    IF str = <<>> THEN <<>>
    ELSE (IF Head(str) \in {"\\", "\""} THEN <<"\\", Head(str)>>
          ELSE <<Head(str)>>) \o escape_yaml_string(Tail(str))

\* format!("/t/{}-{}.md", neighbor_slug, node_id.as_str())
href_of(slug, node_id) == <<"/", "t", "/">> \o generate_filename(slug, node_id)

cross_references_NoBatchCheck(ids, slugs, all_items) ==
    [i \in 1..Len(ids) |->
        [link_text |-> IF ids[i] \in DOMAIN all_items
                       THEN first_words(all_items[ids[i]].text) ELSE <<>>,
         href |-> href_of(IF ids[i] \in DOMAIN slugs
                          THEN slugs[ids[i]] ELSE <<>>, ids[i])]]

\* the filter_map over neighbor ids: an id with no slug or no item in the
\* batch yields nothing
cross_references(ids, slugs, all_items) ==
    LET found == SelectSeq(ids, LAMBDA n : n \in DOMAIN slugs
                                          /\ n \in DOMAIN all_items)
    IN  [i \in 1..Len(found) |->
            [link_text |-> first_words(all_items[found[i]].text),
             href |-> href_of(slugs[found[i]], found[i])]]

\* the lines of one list of the front matter
RECURSIVE ListLines(_, _)
ListLines(refs, i) ==
    IF i > Len(refs) THEN <<>>
    ELSE << <<"link_text", escape_yaml_string(refs[i].link_text)>>,
            <<"href", refs[i].href>> >> \o ListLines(refs, i + 1)

\* `if !list.is_empty() { push the header and the entries }`
section(name, refs) ==
    IF refs # <<>> THEN << <<name, <<>>>> >> \o ListLines(refs, 1) ELSE <<>>

\* the contents of a file as its lines <<key, value>>
generate_file_contents(item, slugs, all_items, date) ==
    LET title == first_words(item.text)
        context_for_this ==
            cross_references(item.in_neighbor_ids, slugs, all_items)
        further_thinking ==
            cross_references(item.out_neighbor_ids, slugs, all_items)
    IN  << <<"---", <<>>>>,
           <<"title", escape_yaml_string(title)>>,
           <<"date", date>> >>
        \o section("context_for_this", context_for_this)
        \o section("further_thinking", further_thinking)
        \o << <<"---", <<>>>>, <<"", <<>>>>, <<"body", item.text>> >>

\* publish, steps 2 and 5: the name and the contents of the file of every
\* item of the batch
render_files(items, date) ==
    LET slugs == [id \in DOMAIN items |-> SlugOf[items[id].text]]
    IN  [id \in DOMAIN items |->
            [filename |-> generate_filename(slugs[id], id),
             contents |-> generate_file_contents(items[id], slugs, items,
                                                 date)]]

\* an item as the sink receives it
Items == [text : {TextA, TextB},
          in_neighbor_ids : Neighbors, out_neighbor_ids : Neighbors]

\* a batch: any items under any ids
Batches == UNION {[ids -> Items] : ids \in SUBSET NodeIds}

\* the text of the nodes of a graph whose nodes are all selected
GraphText(id) == IF id = NodeIdOf(1) THEN TextA ELSE TextB

\* the neighbor ids of an adjacency list, in its order
NeighborIds(list) == [i \in 1..Len(list) |-> list[i][1]]

\* the mapper: an item whose neighbor lists are copied from the adjacency
\* lookups of its node
default_process_node(id, maps) ==
    [text |-> GraphText(id),
     in_neighbor_ids |-> NeighborIds(maps.in[id]),
     out_neighbor_ids |-> NeighborIds(maps.out[id])]

\* a pass on a graph whose nodes are all selected and new: the items of the
\* nodes, from the adjacency maps, go to the sink as one batch
PublishGraph ==
    /\ output.status = "ok"
    /\ \E date \in Dates :
          output' =
              [status |-> "rendered", out |-> output.out, in |-> output.in,
               files |-> render_files(
                   [id \in input.nodes |-> default_process_node(id, output)],
                   date)]
    /\ UNCHANGED <<pipeline, input>>

NextGraphFiles ==
    \/ BuildAdjacency
    \/ PublishGraph

SpecGraphFiles == InitGraph /\ [][NextGraphFiles]_vars

InitRender ==
    /\ PipelineIdle
    /\ input \in Batches
    /\ output = NoOutput

RenderFiles ==
    /\ output.status = "none"
    /\ \E date \in Dates :
          output' = [status |-> "ok", files |-> render_files(input, date)]
    /\ UNCHANGED <<pipeline, input>>

NextRender == RenderFiles

SpecRender == InitRender /\ [][NextRender]_vars


(***************************************************************************)
(* jj_sink.rs: a publish that fails and the retry of the same batch.       *)
(***************************************************************************)
\* the batches of a retry: items with any text, without neighbors
RetryBatches ==
    UNION {[ids -> {i \in Items : /\ i.in_neighbor_ids = <<>>
                                  /\ i.out_neighbor_ids = <<>>}] :
              ids \in SUBSET NodeIds \ {{}}}

InitRetry ==
    /\ PipelineIdle
    /\ input \in RetryBatches
    /\ output = NoOutput

\* a publish outside a dry run that fails at one of its steps; a write
\* that fails may or may not leave its file behind
FailedPublish ==
    /\ output.status = "none"
    /\ \E order \in Orders(DOMAIN input),
          failAt \in FailChoices("jj", Cardinality(DOMAIN input)) \ {0} :
          LET r == JjPublish(input, FALSE, order, failAt)
          IN  \E left \in {r.done, r.attempted} :
                 output' = [status |-> "failed", first |-> r, second |-> r,
                            files |-> WrittenFiles(left)]
    /\ UNCHANGED <<pipeline, input>>

\* the next pass publishes the same items again, in whatever order the map
\* yields them now, and may fail again
RetryPublish ==
    /\ output.status = "failed"
    /\ \E order \in Orders(DOMAIN input),
          failAt \in FailChoices("jj", Cardinality(DOMAIN input)) :
          LET r == JjPublish(input, FALSE, order, failAt)
          IN  \E left \in {r.done, r.attempted} :
                 output' = [output EXCEPT
                               !.status = "retried",
                               !.second = r,
                               !.files = @ \cup WrittenFiles(left)]
    /\ UNCHANGED <<pipeline, input>>

NextRetry ==
    \/ FailedPublish
    \/ RetryPublish

SpecRetry == InitRetry /\ [][NextRetry]_vars


(***************************************************************************)
(* jj_sink.rs: generate_slug on texts of any number of words.              *)
(***************************************************************************)
MaxWords == 9

\* words with punctuation, a hyphen, nothing but punctuation, a digit, and
\* a character whose lowercase form is longer
WordChoices ==
    {<<"A", "!">>, <<"b", "-">>, <<"!">>, <<"B", "1">>, <<"I_dot">>}

Separators == {<<" ">>, <<"\n">>, <<" ", " ">>}

\* a first word and then as many copies of a second word as the count
\* asks for
WordsOf(in) == [i \in 1..in.count |-> IF i = 1 THEN in.head ELSE in.filler]

\* the text of an item: the words with a separator between them, and
\* whitespace around them when padded
TextOf(in) ==
    (IF in.padded THEN in.sep ELSE <<>>)
    \o Join(WordsOf(in), in.sep)
    \o (IF in.padded THEN in.sep ELSE <<>>)

InitSlug ==
    /\ PipelineIdle
    /\ input \in [head : WordChoices, filler : WordChoices,
                   count : 0..MaxWords, sep : Separators, padded : BOOLEAN]
    /\ output = NoOutput

\* Self::generate_slug(&item.text)
CallSlug ==
    /\ output.status = "none"
    /\ output' = [status |-> "once",
                  first |-> generate_slug(TextOf(input)),
                  second |-> <<>>]
    /\ UNCHANGED <<pipeline, input>>

\* the same call again, as a retry of the batch makes it
CallSlugAgain ==
    /\ output.status = "once"
    /\ output' = [output EXCEPT !.status = "twice",
                                !.second = generate_slug(TextOf(input))]
    /\ UNCHANGED <<pipeline, input>>

NextSlug ==
    \/ CallSlug
    \/ CallSlugAgain

SpecSlug == InitSlug /\ [][NextSlug]_vars


(***************************************************************************)
(* jj_sink.rs: the commit message of publish.                              *)
(***************************************************************************)
PreviewBytes == 50
MaxRepeat == 6

\* the number of bytes of a character in a String
Utf8Len(c) == IF c \in {"I_dot", "dot"} THEN 2 ELSE 1

RECURSIVE ByteLen(_)
ByteLen(str) == IF str = <<>> THEN 0 ELSE Utf8Len(Head(str)) + ByteLen(Tail(str))

\* `&text[..n]`: the characters of the first n bytes; the slice panics when
\* byte n is inside a character
ByteSlice(str, n) ==
    LET ends == {k \in 0..Len(str) : ByteLen(SubSeq(str, 1, k)) = n}
    IN  IF ends = {} THEN [ok |-> FALSE, chars |-> <<>>]
        ELSE [ok |-> TRUE, chars |-> SubSeq(str, 1, CHOOSE k \in ends : TRUE)]

AddingMicroblog ==
    <<"A", "d", "d", "i", "n", "g", " ", "m", "i", "c", "r", "o", "b", "l", "o", "g", " ">>

UpdateMicroblogs ==
    <<"U", "p", "d", "a", "t", "e", " ", "m", "i", "c", "r", "o", "b", "l", "o", "g", "s", " ", "(">>

Posts == <<" ", "p", "o", "s", "t", "s", ")">>

\* publish, step 3: the message of the new change; "backtick" stands for
\* the one character U+0060
commit_message(items) ==
    IF Cardinality(DOMAIN items) = 1
    THEN LET item == items[CHOOSE id \in DOMAIN items : TRUE]
             slug == generate_slug(item.text)
             cut == ByteSlice(item.text, PreviewBytes)
         IN  IF ByteLen(item.text) > PreviewBytes
             THEN IF cut.ok
                  THEN [status |-> "ok",
                        message |-> AddingMicroblog \o <<"backtick">> \o slug
                                    \o <<"backtick", "\n", "\n">> \o cut.chars
                                    \o <<".", ".", ".">>]
                  ELSE [status |-> "panic", message |-> <<>>]
             ELSE [status |-> "ok",
                   message |-> AddingMicroblog \o <<"backtick">> \o slug
                               \o <<"backtick", "\n", "\n">> \o item.text]
    ELSE [status |-> "ok",
          message |-> UpdateMicroblogs
                      \o <<DigitChar[Cardinality(DOMAIN items)]>> \o Posts]

\* the pieces a long text is made of, of ten characters each: ten bytes,
\* eleven bytes with a character of two bytes at the start or in the
\* middle, and words with their spaces
Units ==
    {<<"a", "a", "a", "a", "a", "a", "a", "a", "a", "a">>,
     <<"I_dot", "a", "a", "a", "a", "a", "a", "a", "a", "a">>,
     <<"a", "a", "a", "a", "a", "I_dot", "a", "a", "a", "a">>,
     <<"A", "!", " ", "b", "-", "a", " ", "B", "1", " ">>,
     <<"B", "-", "a", "\n", "I_dot", "1", " ", "a", "!", "b">>}

RECURSIVE Repeat(_, _)
Repeat(unit, n) == IF n = 0 THEN <<>> ELSE unit \o Repeat(unit, n - 1)

\* the batch of an input: an item whose text is a unit repeated, and the
\* other items of the batch
BatchOf(in) ==
    [id \in {NodeIdOf(i) : i \in 1..(1 + in.others)} |->
        [text |-> IF id = NodeIdOf(1) THEN Repeat(in.unit, in.count)
                  ELSE TextB]]

InitMessage ==
    /\ PipelineIdle
    /\ input \in [unit : Units, count : 1..MaxRepeat,
                   others : 0..(NumNodes - 1)]
    /\ output = NoOutput

\* publish up to the message of the new change
BuildMessage ==
    /\ output.status = "none"
    /\ output' = commit_message(BatchOf(input))
    /\ UNCHANGED <<pipeline, input>>

NextMessage == BuildMessage

SpecMessage == InitMessage /\ [][NextMessage]_vars


(***************************************************************************)
(* Properties.                                                             *)
(***************************************************************************)
ByProcessCanvas == lastCycle.by = "process_canvas"

\* a step in which a processing pass runs
PassStep ==
    \/ ~started /\ started'
    \/ cur # <<>> /\ Head(cur) = "Any" /\ cur' = Tail(cur)

\* a pass of process_canvas that follows an earlier pass of it and finds
\* the same selected nodes, as every pass on an unchanged graph does
RepeatedPass ==
    /\ PassStep
    /\ ByProcessCanvas
    /\ lastCycle.read = "ok"
    /\ lastCycle'.by = "process_canvas"
    /\ lastCycle'.read = "ok"
    /\ lastCycle'.selected = lastCycle.selected

\* C1: in every pass of process_canvas, no identifier handed to
\* sink.publish is one the tracker reported as published when the pass
\* began, even when the graph still contains that node as a selected node.
C1_BatchExcludesPublished ==
    ByProcessCanvas =>
        /\ \A x \in lastCycle.batch : ~is_published(lastCycle.before, x)
        /\ \A i \in DOMAIN lastCycle.calls :
              \A x \in lastCycle.calls[i] : ~is_published(lastCycle.before, x)

C1_Witness ==
    /\ ByProcessCanvas
    /\ lastCycle.calls # <<>>
    /\ \E x \in lastCycle.selected :
          /\ is_published(lastCycle.before, x)
          /\ x \notin lastCycle.calls[1]

\* the pass that published marks exactly its batch
C2_MarkedExactlyBatch ==
    (ByProcessCanvas /\ lastCycle.results = <<TRUE>> /\ ~dry_run) =>
        /\ lastCycle.calls = <<lastCycle.batch>>
        /\ lastCycle.marks = <<lastCycle.batch>>
        /\ published = lastCycle.before \cup lastCycle.batch

\* the pass after it, on the same selected nodes, has nothing to send
C2_SecondCycleEmpty ==
    (RepeatedPass /\ lastCycle.results = <<TRUE>> /\ ~dry_run) =>
        (lastCycle'.batch = {} /\ lastCycle'.calls = <<>>)

\* C2: after a successful publish outside a dry run, mark_published is
\* called once with exactly the identifiers of the batch just published,
\* and the next pass that finds the same selected nodes computes an empty
\* batch.
C2_MarkThenEmpty == []C2_MarkedExactlyBatch /\ [][C2_SecondCycleEmpty]_vars

C2_Witness ==
    /\ ByProcessCanvas
    /\ ~dry_run
    /\ lastCycle.results = <<TRUE>>
    /\ Cardinality(lastCycle.batch) = 2
    /\ lastCycle.marks = <<lastCycle.batch>>

\* the pass whose publish failed marks nothing
C3_FailedNotMarked ==
    (ByProcessCanvas /\ lastCycle.results = <<FALSE>>) =>
        /\ lastCycle.marks = <<>>
        /\ published = lastCycle.before

\* the pass after it, on the same selected nodes, sends the batch again
C3_RetrySameBatch ==
    (RepeatedPass /\ lastCycle.results = <<FALSE>>) =>
        (lastCycle'.batch = lastCycle.batch /\ lastCycle'.calls = <<lastCycle.batch>>)

\* C3: when sink.publish returns an error, at whatever step, mark_published
\* is not called and the tracker's set is as it was before the pass; the
\* next pass that finds the same selected nodes computes the same batch.
C3_FailureRetried == []C3_FailedNotMarked /\ [][C3_RetrySameBatch]_vars

\* the publish failed at the final push
C3_Witness ==
    /\ ByProcessCanvas
    /\ sinkKind = "jj"
    /\ lastCycle.results = <<FALSE>>
    /\ lastCycle.attempted # <<>>
    /\ lastCycle.attempted[Len(lastCycle.attempted)][1] = "push"
    /\ lastCycle.marks = <<>>

\* no pass of a dry run calls mark_published
C4_DryNeverMarks ==
    (ByProcessCanvas /\ dry_run) => lastCycle.marks = <<>>

\* no step of a dry run changes the set; a repeated pass repeats its batch
C4_DryStep ==
    (dry_run /\ entry = "watch_and_process") =>
        /\ published' = published
        /\ RepeatedPass => lastCycle'.batch = lastCycle.batch

\* C4: in a dry run no pass changes the tracker's set and mark_published
\* is never called, whether sink.publish succeeds or fails; a dry-run pass
\* that finds the same selected nodes as the one before computes the same
\* batch.
C4_DryRunFrame == []C4_DryNeverMarks /\ [][C4_DryStep]_vars

C4_Witness ==
    /\ ByProcessCanvas
    /\ dry_run
    /\ lastCycle.results = <<TRUE>>
    /\ lastCycle.batch # {}
    /\ lastCycle.marks = <<>>
    /\ published = lastCycle.before

\* the other outcome of C4: the publish of a dry run failed
C4_WitnessFailed ==
    /\ ByProcessCanvas
    /\ dry_run
    /\ lastCycle.results = <<FALSE>>
    /\ lastCycle.marks = <<>>


\* no identifier is marked that was in the set when the pass began
C5_NeverRemarked ==
    ByProcessCanvas =>
        \A i \in DOMAIN lastCycle.marks : lastCycle.marks[i] \cap lastCycle.before = {}

\* the set only grows; a pass sends and marks nothing that is in the set
C5_Step ==
    /\ published \subseteq published'
    /\ (PassStep /\ lastCycle'.by = "process_canvas") =>
          /\ lastCycle'.batch \cap published = {}
          /\ \A i \in DOMAIN lastCycle'.marks : lastCycle'.marks[i] \cap published = {}

\* C5: mark_published is never called with an identifier already in the
\* set, the set never shrinks, and the batch of every pass excludes every
\* identifier that is in the set when the pass begins, whatever the node's
\* text has become.
C5_MarkedOnce == []C5_NeverRemarked /\ [][C5_Step]_vars

\* a node was published and marked, its text was edited afterwards, and
\* the node is still selected
C5_Witness ==
    /\ ByProcessCanvas
    /\ sinkKind = "jj"
    /\ lastCycle.marks # <<>>
    /\ content.wellformed
    /\ \E x \in lastCycle.marks[1] :
          /\ is_published(published, x)
          /\ default_node_filter(content.nodes[x])
          /\ generate_filename(SlugOf[content.nodes[x].text], x)
                \notin WrittenFiles(lastCycle.done)

\* C6: in any pass sink.publish is invoked at most once, with the whole
\* batch.
C6_SinglePublishCall ==
    lastCycle.by # "none" =>
        /\ Len(lastCycle.calls) <= 1
        /\ \A i \in DOMAIN lastCycle.calls : lastCycle.calls[i] = lastCycle.batch

\* C7: a pass whose batch is empty calls neither sink.publish nor
\* mark_published and leaves the tracker's set as it was.
C7_EmptyBatchNoPublish ==
    (ByProcessCanvas /\ lastCycle.read = "ok" /\ lastCycle.batch = {}) =>
        /\ lastCycle.calls = <<>>
        /\ lastCycle.marks = <<>>
        /\ lastCycle.attempted = <<>>
        /\ published = lastCycle.before

\* every selected node is already published
C7_Witness ==
    /\ ByProcessCanvas
    /\ lastCycle.read = "ok"
    /\ lastCycle.selected # {}
    /\ lastCycle.batch = {}
    /\ lastCycle.calls = <<>>

ReadFailed == lastCycle.read \in {"read_err", "parse_err"}

\* the failed pass did nothing
C8_FailedReadRecord ==
    (ByProcessCanvas /\ ReadFailed) =>
        /\ lastCycle.selected = {}
        /\ lastCycle.calls = <<>>
        /\ lastCycle.marks = <<>>
        /\ lastCycle.attempted = <<>>
        /\ published = lastCycle.before
        /\ started

\* a pass on a malformed file fails to parse and leaves the set alone
C8_Step ==
    (PassStep /\ lastCycle'.by = "process_canvas" /\ ~content.wellformed) =>
        /\ lastCycle'.read \in {"read_err", "parse_err"}
        /\ published' = published

\* C8: a pass that cannot read or parse the file calls neither
\* sink.publish nor mark_published, leaves the tracker's set unchanged and
\* ends with the loop running; a pass on a malformed file is such a pass.
C8_ReadFailureNoChange == []C8_FailedReadRecord /\ [][C8_Step]_vars

C8_Witness ==
    /\ ByProcessCanvas
    /\ lastCycle.read = "parse_err"
    /\ lastCycle.before # {}
    /\ published = lastCycle.before
    /\ lastCycle.calls = <<>>

\* the other failure of C8: the file could not be read
C8_WitnessReadError ==
    /\ ByProcessCanvas
    /\ lastCycle.read = "read_err"
    /\ content.wellformed
    /\ lastCycle.calls = <<>>

\* the step names of a publish of n items that runs to its end
FullNames(n) ==
    <<"fetch", "new">> \o [i \in 1..n |-> "write"] \o <<"bookmark", "push">>

IsPrefix(a, b) == Len(a) <= Len(b) /\ a = SubSeq(b, 1, Len(a))

WriteIndexes(steps) == {i \in 1..Len(steps) : steps[i][1] = "write"}

\* each write is the file of a batch item of its own
OneFilePerItem(steps, batch) ==
    \E f \in [WriteIndexes(steps) -> batch] :
        /\ \A i, j \in WriteIndexes(steps) : f[i] = f[j] => i = j
        /\ \A i \in WriteIndexes(steps) :
              \E t \in Texts : steps[i][2] = generate_filename(SlugOf[t], f[i])

TouchStep == lastCycle' # lastCycle \/ published' # published

\* a message is taken from the head of the channel, only when no event is
\* left; events are handled in order; only a pass changes tracker and sink
C11_Step ==
    /\ Len(rx'.msgs) < Len(rx.msgs) =>
          /\ cur = <<>>
          /\ rx'.msgs = Tail(rx.msgs)
          /\ cur' = IF Head(rx.msgs).ok THEN Head(rx.msgs).events ELSE <<>>
          /\ ~TouchStep
    /\ (cur # <<>> /\ cur' # cur) => cur' = Tail(cur) /\ rx' = rx
    /\ TouchStep => PassStep

C12_StartupFirst ==
    /\ ~started => /\ lastCycle = NoCycle
                   /\ rx.state = "none"
                   /\ exit = "none"
    /\ started => ByProcessCanvas
    /\ rx.state = "none" => cur = <<>>

\* while no channel exists the only pass is the startup pass
C12_Step ==
    /\ started => started'
    /\ (TouchStep /\ rx.state = "none") => ~started /\ started'

\* C12: watch_and_process runs one pass at startup before the watcher and
\* its channel exist, whatever the watcher would report: nothing is
\* published, marked or received before that pass, the watcher is set up
\* (or fails to be) only after it, and no other pass runs until the channel
\* exists.
C12_OneStartupPass == []C12_StartupFirst /\ [][C12_Step]_vars

\* the startup pass has published a batch and no watcher exists yet
C12_Witness ==
    /\ started
    /\ rx.state = "none"
    /\ exit = "none"
    /\ lastCycle.results = <<TRUE>>

\* the last pass met a read error, a parse error or a failed publish
FailedCycle == ReadFailed \/ lastCycle.results = <<FALSE>>

\* the steps that leave the loop running, and the two ways it returns
C13_Step ==
    /\ PassStep => exit' = "none"
    /\ (rx.msgs # <<>> /\ rx'.msgs = Tail(rx.msgs)) => exit' = "none"
    /\ exit' # exit =>
          \/ rx.state = "none" /\ started /\ exit' = "err"
          \/ /\ rx.state = "closed" /\ rx.msgs = <<>> /\ cur = <<>>
             /\ exit' = "ok"

C13_WitnessParse ==
    /\ lastCycle.read = "parse_err"
    /\ exit = "none"
    /\ cur # <<>> /\ Head(cur) = "Any"

\* the last pass published and its mark_published could not persist
MarkFailed == ByProcessCanvas /\ lastCycle.markResults = <<FALSE>>

\* what a pass whose mark failed has done
C14_MarkFailureRecord ==
    MarkFailed =>
        /\ ~dry_run
        /\ lastCycle.results = <<TRUE>>
        /\ Len(lastCycle.calls) = 1
        /\ lastCycle.marks = <<lastCycle.batch>>
        /\ lastCycle.batch # {}
        /\ lastCycle.batch \subseteq published

\* the pass whose mark fails leaves the loop running, and the pass after
\* it has none of that batch in its own batch
C14_Step ==
    /\ (PassStep /\ lastCycle'.markResults = <<FALSE>>) => exit' = "none"
    /\ (PassStep /\ MarkFailed) =>
          /\ lastCycle'.batch \cap lastCycle.batch = {}
          /\ lastCycle.batch \subseteq published'

C14_WitnessFailed ==
    /\ MarkFailed
    /\ exit = "none"
    /\ cur # <<>> /\ Head(cur) = "Any"

\* the pairs an adjacency list holds for the edges that satisfy a test, in
\* the order of the edges
RECURSIVE PairsOf(_, _, _, _)
PairsOf(edges, i, n, dir) ==
    IF i > Len(edges) THEN <<>>
    ELSE (IF dir = "out" /\ edges[i].from = n
          THEN <<(<<edges[i].to, edges[i].id>>)>>
          ELSE IF dir = "in" /\ edges[i].to = n
          THEN <<(<<edges[i].from, edges[i].id>>)>>
          ELSE <<>>) \o PairsOf(edges, i + 1, n, dir)

\* C15: the adjacency maps are correct: the out-list of a node holds
\* (to, eid) for exactly the edges that leave it, its in-list holds
\* (from, eid) for exactly the edges that reach it, and no other pair.
C15_AdjacencyCorrect ==
    output.status # "none" =>
        \A n \in NodeIds :
            /\ output.out[n] = PairsOf(input.edges, 1, n, "out")
            /\ output.in[n] = PairsOf(input.edges, 1, n, "in")

\* an edge of the graph names an id that is not among its nodes
Dangling(graph) ==
    \E i \in 1..Len(graph.edges) :
        graph.edges[i].from \notin graph.nodes
        \/ graph.edges[i].to \notin graph.nodes

\* C16: on a graph with an edge whose source or destination is no node,
\* the edge is still in the adjacency maps and to_syndication_format
\* completes.
C16_DanglingEdgeTolerated ==
    (output.status # "none" /\ Dangling(input)) =>
        /\ output.status # "panic"
        /\ \A i \in 1..Len(input.edges) :
              \E k \in 1..Len(output.out[input.edges[i].from]) :
                 output.out[input.edges[i].from][k]
                     = <<input.edges[i].to, input.edges[i].id>>

\* C17: the default filter accepts a node exactly when it is a text node
\* with non-empty text and the preset color red, whatever adjacency it is
\* handed, and a second call on the same arguments gives the same answer.
C17_DefaultPolicy ==
    /\ output.status # "none" =>
          (output.first <=> /\ input.node.kind = "text"
                            /\ input.node.text # EmptyText
                            /\ input.node.color = "red")
    /\ output.status = "twice" => output.second = output.first

\* a red text node with neighbors has been accepted twice
C17_Witness ==
    /\ output.status = "twice"
    /\ output.first
    /\ input.out # <<>>
    /\ input.in # <<>>

\* a text node with text and no color has been rejected
C17_WitnessNoColor ==
    /\ output.status = "twice"
    /\ ~output.first
    /\ input.node.kind = "text"
    /\ input.node.text # EmptyText
    /\ input.node.color = "none"

\* the hrefs listed under a header of the front matter, up to the next
\* line that is no entry
RECURSIVE HrefsFrom(_, _)
HrefsFrom(lines, i) ==
    IF i > Len(lines) \/ lines[i][1] \notin {"link_text", "href"} THEN {}
    ELSE (IF lines[i][1] = "href" THEN {lines[i][2]} ELSE {})
         \cup HrefsFrom(lines, i + 1)

HasHeader(lines, name) == \E i \in 1..Len(lines) : lines[i][1] = name

HrefsUnder(lines, name) ==
    UNION {HrefsFrom(lines, i + 1) :
              i \in {k \in 1..Len(lines) : lines[k][1] = name}}

\* C18: when the graph has an edge from A to B and both are in the batch,
\* the file of B lists the file of A under context_for_this and the file
\* of A lists the file of B under further_thinking.
C18_EdgeCrossReferenced ==
    output.status = "rendered" =>
        \A i \in 1..Len(input.edges) :
            LET a == input.edges[i].from
                b == input.edges[i].to
            IN  (a \in input.nodes /\ b \in input.nodes) =>
                  /\ href_of(SlugOf[GraphText(a)], a)
                        \in HrefsUnder(output.files[b].contents,
                                       "context_for_this")
                  /\ href_of(SlugOf[GraphText(b)], b)
                        \in HrefsUnder(output.files[a].contents,
                                       "further_thinking")

\* the hrefs of the neighbors of a list that are items of the batch
BatchHrefs(ids, batch) ==
    {href_of(SlugOf[batch[ids[i]].text], ids[i]) :
        i \in {k \in 1..Len(ids) : ids[k] \in DOMAIN batch}}

\* C19: cross-references are batch-scoped. Every file of the batch is
\* rendered; its context_for_this and further_thinking entries are those
\* of the in and out neighbors that are items of the batch, a neighbor
\* outside the batch gives no entry, and a list with no entry has no
\* header in the front matter.
C19_BatchScoped ==
    output.status # "none" =>
        /\ output.status = "ok"
        /\ DOMAIN output.files = DOMAIN input
        /\ \A id \in DOMAIN input :
              LET lines == output.files[id].contents
                  ins == BatchHrefs(input[id].in_neighbor_ids, input)
                  outs == BatchHrefs(input[id].out_neighbor_ids, input)
              IN  /\ HrefsUnder(lines, "context_for_this") = ins
                  /\ HrefsUnder(lines, "further_thinking") = outs
                  /\ HasHeader(lines, "context_for_this") <=> ins # {}
                  /\ HasHeader(lines, "further_thinking") <=> outs # {}

\* a rendered item names an in neighbor that is not in the batch and an
\* out neighbor that is
C19_Witness ==
    /\ output.status = "ok"
    /\ \E id \in DOMAIN input :
          /\ input[id].in_neighbor_ids # <<>>
          /\ input[id].in_neighbor_ids[1] \notin DOMAIN input
          /\ input[id].out_neighbor_ids # <<>>
          /\ input[id].out_neighbor_ids[1] \in DOMAIN input
          /\ ~HasHeader(output.files[id].contents, "context_for_this")
          /\ HasHeader(output.files[id].contents, "further_thinking")

\* the file name of every item of a batch
NamesOf(batch) ==
    {generate_filename(SlugOf[batch[id].text], id) : id \in DOMAIN batch}

\* C20 as stated: the retry writes exactly the set of file names that the
\* failed attempt wrote, and no file is added.
C20_RetryWritesSameSet ==
    output.status = "retried" =>
        /\ WrittenFiles(output.second.attempted)
              = WrittenFiles(output.first.attempted)
        /\ output.files = WrittenFiles(output.first.attempted)

\* C20: a retry of the same items writes only the file names of the items
\* of the batch, one name per item and the same name in every attempt: the
\* names the failed attempt wrote are among them, the folder never holds
\* another name, and after a retry that succeeds it holds exactly one file
\* per item.
C20_RetryFileNames ==
    output.status # "none" =>
        /\ WrittenFiles(output.first.attempted) \subseteq NamesOf(input)
        /\ WrittenFiles(output.second.attempted) \subseteq NamesOf(input)
        /\ output.files \subseteq NamesOf(input)
        /\ Cardinality(NamesOf(input)) = Cardinality(DOMAIN input)
        /\ (output.status = "retried" /\ output.second.ok) =>
              /\ WrittenFiles(output.first.done)
                    \subseteq WrittenFiles(output.second.done)
              /\ output.files = NamesOf(input)

\* an attempt that failed after it wrote some of the files has been
\* followed by a retry that succeeded
C20_Witness ==
    /\ output.status = "retried"
    /\ output.second.ok
    /\ WrittenFiles(output.first.done) # {}
    /\ WrittenFiles(output.first.done) # WrittenFiles(output.second.done)

\* the characters of the lowercase forms of the alphanumerics
LoweredAlphanumerics ==
    UNION {{ToLower(c)[i] : i \in 1..Len(ToLower(c))} : c \in Alphanumeric}

Count(str, c) == Cardinality({i \in 1..Len(str) : str[i] = c})

\* the words among the first SlugWords of the input that keep a character
KeptWords(in) ==
    {i \in 1..in.count :
        /\ i <= SlugWords
        /\ \E k \in 1..Len(WordsOf(in)[i]) :
              WordsOf(in)[i][k] \in Alphanumeric \cup {"-"}}

\* the hyphens inside the first SlugWords words of the input
HyphensInside(in) ==
    LET inside == {i \in 1..in.count : i <= SlugWords}
    IN  Cardinality({i \in inside : i = 1}) * Count(in.head, "-")
        + Cardinality({i \in inside : i > 1}) * Count(in.filler, "-")

C21_WitnessLowercase ==
    /\ output.status = "twice"
    /\ \E i \in 1..Len(output.first) : output.first[i] = "dot"

\* the text of the one item of a single-item batch
OnlyText == Repeat(input.unit, input.count)

\* C22: the message of a single-item batch is `Adding microblog "<slug>"`
\* and then a preview of at most 50 characters of the text, whatever the
\* length of the text; the message of a batch of n > 1 items is
\* `Update microblogs (<n> posts)`.
C22_CommitMessage ==
    output.status # "none" =>
        /\ output.status = "ok"
        /\ input.others = 0 =>
              LET head == AddingMicroblog \o <<"\"">>
                          \o generate_slug(OnlyText) \o <<"\"">>
              IN  /\ IsPrefix(head, output.message)
                  /\ Len(output.message) - Len(head) - 2 <= PreviewBytes
        /\ input.others > 0 =>
              output.message
                  = UpdateMicroblogs \o <<DigitChar[1 + input.others]>>
                    \o Posts

\* the changes an attempt created: its `jj new` commands that succeeded
NewCount(steps) == Cardinality({i \in 1..Len(steps) : steps[i][1] = "new"})

\* an attempt starts at fetch, creates at most one change, and writes
\* files only after its own `jj new` has succeeded
FreshAttempt(r) ==
    /\ r.attempted # <<>>
    /\ r.attempted[1][1] = "fetch"
    /\ NewCount(r.attempted) <= 1
    /\ \A i \in 1..Len(r.attempted) :
          r.attempted[i][1] = "write" =>
              \E j \in 1..(i - 1) :
                  /\ r.attempted[j][1] = "new"
                  /\ j <= Len(r.done)
    /\ NewCount(r.done) = (IF Len(r.done) >= 2 THEN 1 ELSE 0)

\* C23: the sink keeps no memory of earlier attempts. Every publish of a
\* non-empty batch outside a dry run starts at fetch and creates its own
\* change before it writes a file, whatever the attempt before it left
\* behind: the attempts that get past the second step create one change
\* each, so the retry after a failed attempt that had created a change
\* creates a second one.
C23_NoMemoryOfAttempts ==
    /\ output.status # "none" => FreshAttempt(output.first)
    /\ output.status = "retried" =>
          /\ FreshAttempt(output.second)
          /\ WrittenFiles(output.second.attempted) # {} =>
                NewCount(output.second.done) = 1
          /\ NewCount(output.first.done) + NewCount(output.second.done)
                = Cardinality({r \in {1, 2} :
                      Len((IF r = 1 THEN output.first
                           ELSE output.second).done) >= 2})

\* an attempt that failed after it created a change and wrote a file has
\* been followed by a retry that created a change of its own
C23_Witness ==
    /\ output.status = "retried"
    /\ WrittenFiles(output.first.done) # {}
    /\ NewCount(output.first.done) = 1
    /\ NewCount(output.second.done) = 1

\* the last pass published its batch
PublishSucceeded == ByProcessCanvas /\ lastCycle.results = <<TRUE>>

\* every selected node of the canvas is in the published set
AllPublished == SelectedNow(TRUE) \subseteq published

\* the last pass had nothing to publish and did not call the sink
QuietCycle == lastCycle.batch = {} /\ lastCycle.calls = <<>>

====
